---- MODULE Spec2Model ----
(***************************************************************************)
(* Model of lib/backbone-redis.js: a Backbone.sync adapter that stores     *)
(* models in Redis.  Every model "customer:<id>" is a Redis hash whose     *)
(* fields hold JSON text, the set "customer" holds the ids of the type,    *)
(* the sets "customer:address:<json>" are the by-property lookups and the  *)
(* key "id:customer" is the id counter.                                    *)
(*                                                                         *)
(* An adapter instance owns one Redis connection (line 7).  A connection   *)
(* sends its commands in the order the code issues them, the server runs   *)
(* them in that order and the replies run the callbacks in that order, so  *)
(* a connection is a FIFO queue of commands in flight.  WATCH, UNWATCH and *)
(* EXEC act on the connection: EXEC and UNWATCH forget every watched key   *)
(* of the connection, and an EXEC of a connection whose watched key was    *)
(* written by another connection applies nothing and answers a null reply  *)
(* with no error.                                                          *)
(***************************************************************************)
EXTENDS Integers, Sequences, FiniteSets, TLC

\* Number of sync() invocations in one behaviour.
MaxOps == 2

\* The adapter instances (one Redis connection each) talking to the store.
Clients == {"c1", "c2"}

\* The ids of the model type "customer": values of INCR id:customer and of model.id.
Ids == {1, 2}

\* The keys customer:<id> a call can name: model.id of a model without an id is
\* undefined and the key is customer:undefined, written 0 here.
Keys == Ids \cup {0}

\* The fields a stored hash can hold; "address" is the declared lookup.
Fields == {"id", "_rev", "address"}
lookups == {"address"}

-----------------------------------------------------------------------------
(* JavaScript values and their JSON text.  Text is a sequence of one-character
   strings, so that JSON.stringify and JSON.parse are computed, not assumed. *)

Num(n) == [t |-> "number", n |-> n, s |-> <<>>]
Str(s) == [t |-> "string", n |-> 0, s |-> s]
Undefined == [t |-> "undefined", n |-> 0, s |-> <<>>]
Null == [t |-> "null", n |-> 0, s |-> <<>>]

\* The attribute values a model can carry in "address": the number 1 and the
\* string "1", which differ in type only.
Vals == {Num(1), Str(<<"1">>)}

Digit(d) ==
    CASE d = 0 -> "0" [] d = 1 -> "1" [] d = 2 -> "2" [] d = 3 -> "3"
      [] d = 4 -> "4" [] d = 5 -> "5" [] d = 6 -> "6" [] d = 7 -> "7"
      [] d = 8 -> "8" [] d = 9 -> "9"

DigitVal(c) == CHOOSE d \in 0..9 : Digit(d) = c

RECURSIVE NumText(_)
NumText(n) == IF n < 10 THEN <<Digit(n)>> ELSE NumText(n \div 10) \o <<Digit(n % 10)>>

RECURSIVE TextNum(_)
TextNum(s) ==
    IF Len(s) = 1 THEN DigitVal(s[1])
    ELSE 10 * TextNum(SubSeq(s, 1, Len(s) - 1)) + DigitVal(s[Len(s)])

\* JSON.stringify(v); for undefined it yields undefined, which the string
\* concatenation of a key turns into the text "undefined".
JSONstringify(v) ==
    CASE v.t = "number" -> NumText(v.n)
      [] v.t = "string" -> <<"\"">> \o v.s \o <<"\"">>
      [] v.t = "null" -> <<"n", "u", "l", "l">>
      [] OTHER -> <<"u", "n", "d", "e", "f", "i", "n", "e", "d">>

\* JSON.parse(s) of the text of a number, of a string or of null.
JSONparse(s) ==
    IF s[1] = "\"" THEN Str(SubSeq(s, 2, Len(s) - 1))
    ELSE IF s = <<"n", "u", "l", "l">> THEN Null
    ELSE Num(TextNum(s))

\* JSON.parse(s) throws a SyntaxError: s is the text "undefined", which is what
\* the client sends for an argument that is undefined.
JSONparseThrows(s) == s = <<"u", "n", "d", "e", "f", "i", "n", "e", "d">>

\* (rev|0) of the reply of HGET: null gives 0, the text of a number its value.
ToInt32(reply) == IF reply = <<>> THEN 0 ELSE TextNum(reply)

\* A JavaScript object: a function from the names of its own properties.
EmptyObj == [f \in {} |-> Undefined]
Prop(obj, f) == IF f \in DOMAIN obj THEN obj[f] ELSE Undefined
With(obj, f, v) == [g \in DOMAIN obj \cup {f} |-> IF g = f THEN v ELSE obj[g]]

-----------------------------------------------------------------------------
(* The Redis store. *)

\* The texts a lookup key can end in.
Buckets == {JSONstringify(v) : v \in Vals \cup {Undefined}}

NoHash == [f \in {} |-> <<>>]

VARIABLES
    hashes,     \* hashes[i]: the hash stored under customer:<i> (NoHash: no key)
    typeSet,    \* the set customer
    lookupSets, \* lookupSets[b]: the set customer:address:<b>
    counter,    \* the value of id:customer
    watched,    \* watched[c]: the keys (ids) connection c watches
    dirty,      \* dirty[c]: a key c watches was written since c's WATCH
    queue,      \* queue[c]: the commands of connection c in flight, oldest first
    ops         \* the sync() invocations so far, with their locals and outcome

vars == <<hashes, typeSet, lookupSets, counter, watched, dirty, queue, ops>>
data == <<hashes, typeSet, lookupSets>>
conn == <<watched, dirty>>

\* HGET key field: the text of the field, or the null reply (the empty text).
HGET(h, f) == IF f \in DOMAIN h THEN h[f] ELSE <<>>

\* HMSET key f1 v1 ...: sets the fields given and keeps every other field.
HMSET(h, args) ==
    [f \in DOMAIN h \cup DOMAIN args |-> IF f \in DOMAIN args THEN args[f] ELSE h[f]]

SADD(set, id) == set \cup {id}
SREM(set, id) == set \ {id}

RECURSIVE SetToSeq(_)
SetToSeq(S) ==
    IF S = {} THEN <<>>
    ELSE LET m == CHOOSE x \in S : \A y \in S : x <= y
         IN <<m>> \o SetToSeq(S \ {m})

\* SMEMBERS key: the members of a set as a list.
SMEMBERS(set) == SetToSeq(set)

-----------------------------------------------------------------------------
(* One sync() invocation: its arguments, the locals of its callbacks and the
   callback of options it ended in. *)

\* The errors handed to options.error: the message, err.status and, for a
\* message that ends in the key of a model, the id in that key.
Error(message, status, id) == [message |-> message, status |-> status, id |-> id]
NoError == Error("", 0, 0)
\* lines 21-22
ErrMismatch == Error("Revision number mismatch", 409, 0)
\* line 54
ErrChangeId == Error("Changing the ID of an existing model is not possible", 0, 0)
\* line 132
ErrNotExist(id) == Error("Model does not exist: customer:", 0, id)
\* line 222
ErrLookup(key) == Error("Cannot lookup by property \"" \o key \o "\"", 0, 0)
\* line 233
ErrIdRequired == Error("An id is required to load models", 0, 0)
\* line 246
ErrInvalidMethod(method) == Error("Invalid method " \o method, 0, 0)

NewOp(c, method, target, id, mrev, attr, dataId) ==
    [ client   |-> c,
      method   |-> method,     \* "create", "update", "delete", "read"
      target   |-> target,     \* "model", "collection", "lookup"
      id       |-> id,         \* model.id (0: none yet)
      mrev     |-> mrev,       \* model.get('_rev'): {} is undefined, {r} is r
      attr     |-> attr,       \* the model's address (Undefined: none; the value looked up)
      dataId   |-> dataId,     \* model.toJSON().id: {} is undefined
      startRev |-> IF id \in Ids THEN ToInt32(HGET(hashes[id], "_rev")) ELSE 0,
                               \* (history) the _rev stored when sync was called
      guarded  |-> FALSE,      \* (history) modify's HGET has answered
      stored   |-> 0,          \* (history) the _rev it read, 0 for null
      overtaken |-> FALSE,     \* (history) the key was written since, by another op
      rev      |-> 0,          \* rev handed over by modify
      hasPrev  |-> FALSE,      \* execMulti was given previous
      previous |-> EmptyObj,   \* the attributes read by get
      key      |-> "address",  \* options.lookup.key of a read with a lookup
      embeds   |-> FALSE,      \* the attribute "child" is a model that has no id
      parent   |-> 0,          \* the op whose storeDependencies saves this model (0: the caller)
      childId  |-> 0,          \* data.child once the embedded model is saved
      more     |-> FALSE,      \* the attribute "other" is a model that has no id, too
      otherId  |-> 0,          \* data.other once that embedded model is saved
      slot     |-> "child",    \* the attribute of the owner this model is the value of
      holds    |-> FALSE,      \* (history) its WATCH is in force on the connection
      calls    |-> 0,          \* (history) how often options.success or options.error ran
      typeAt   |-> {},         \* (history) the set read by SMEMBERS when it answered
      seen     |-> <<>>,       \* (history) the hashes its gets were answered with
      members  |-> <<>>,       \* the reply of SMEMBERS
      results  |-> <<>>,       \* what async.map collected
      applied  |-> FALSE,      \* the op's EXEC applied its batch
      outcome  |-> "pending",  \* "pending", "success", "error"
      resp     |-> EmptyObj,   \* the argument of options.success
      error    |-> NoError ]   \* the argument of options.error

Cmd(i, cmd, key) == [op |-> i, cmd |-> cmd, key |-> key]

\* The reply at the head of connection c's queue is handled: the command leaves
\* the queue and the commands its callback issues join it.
Send(c, cmds) == queue' = [queue EXCEPT ![c] = Tail(@) \o cmds]

\* options.success(resp) and options.error(err).
Success(o, resp) == [o EXCEPT !.outcome = "success", !.resp = resp, !.calls = @ + 1]
Failure(o, err) == [o EXCEPT !.outcome = "error", !.error = err, !.calls = @ + 1]

Init ==
    /\ \E a \in Vals \cup {Undefined}, present \in BOOLEAN :
         \* the database is empty, or holds customer 1 as a create left it
         LET h == IF a = Undefined
                  THEN [f \in {"id", "_rev"} |-> <<"1">>]
                  ELSE [f \in Fields |-> IF f = "address" THEN JSONstringify(a) ELSE <<"1">>]
         IN /\ hashes = [i \in Keys |-> IF present /\ i = 1 THEN h ELSE NoHash]
            /\ typeSet = IF present THEN {1} ELSE {}
            /\ lookupSets = [b \in Buckets |->
                               IF present /\ b = JSONstringify(a) THEN {1} ELSE {}]
            /\ counter = IF present THEN 1 ELSE 0
    /\ watched = [c \in Clients |-> {}]
    /\ dirty = [c \in Clients |-> FALSE]
    /\ queue = [c \in Clients |-> <<>>]
    /\ ops = <<>>

-----------------------------------------------------------------------------
(* The connection: what a command at the head of the queue does to the
   connection's watch state. *)

AtHead(c, cmd) ==
    /\ queue[c] # <<>>
    /\ Head(queue[c]).cmd = cmd

\* UNWATCH, and the end of every EXEC: the connection watches nothing.
Unwatch(c) ==
    /\ watched' = [watched EXCEPT ![c] = {}]
    /\ dirty' = [dirty EXCEPT ![c] = FALSE]

\* EXEC of connection c wrote the keys in written: c watches nothing, and every
\* other connection watching one of them will have its next EXEC refused.
ExecWrote(c, written) ==
    /\ watched' = [watched EXCEPT ![c] = {}]
    /\ dirty' = [k \in Clients |->
                   IF k = c THEN FALSE ELSE dirty[k] \/ (watched[k] \cap written # {})]

\* (history) an EXEC or an UNWATCH of connection c ends the WATCH of every
\* operation of c.
Released(after, c) ==
    LET each == [j \in DOMAIN after |->
                   IF after[j].client = c THEN [after[j] EXCEPT !.holds = FALSE] ELSE after[j]]
    IN SubSeq(each, 1, Len(after))   \* a sequence, as ops is

\* (history) op i wrote the key of id: every other write or delete of that key
\* whose modify has read the revision and which has not answered yet is overtaken.
Overtake(after, i, id) ==
    LET each == [j \in DOMAIN after |->
                   IF /\ j # i
                      /\ after[j].id = id
                      /\ after[j].method # "read"
                      /\ after[j].guarded
                      /\ after[j].outcome = "pending"
                   THEN [after[j] EXCEPT !.overtaken = TRUE]
                   ELSE after[j]]
    IN SubSeq(each, 1, Len(after))   \* a sequence, as ops is

-----------------------------------------------------------------------------
(* modify (lines 11-28) *)

\* Faulty variant of line 16: a null reply is compared with the model's _rev
\* like a stored revision.
modifyAcceptsStored(reply, mrev) == mrev = {ToInt32(reply)}

\* Faulty variant of line 16: a model without _rev is let through, whatever is stored.
modifyAcceptsNoRev(reply, mrev) == reply = <<>> \/ mrev = {} \/ mrev = {ToInt32(reply)}

\* line 16: rev === null || (rev|0) === model.get('_rev')
modifyAccepts(reply, mrev) == reply = <<>> \/ mrev = {ToInt32(reply)}

\* line 17: (rev|0) + 1
modifyRev(reply) == ToInt32(reply) + 1

\* lines 12-15: modify sends WATCH key and HGET key _rev.
modify(i, id) == <<Cmd(i, "WATCH", id), Cmd(i, "HGET", id)>>

\* line 14: the WATCH reaches the server (it has no callback).
modifyWatch(c) ==
    /\ AtHead(c, "WATCH")
    /\ watched' = [watched EXCEPT ![c] = @ \cup {Head(queue[c]).key}]
    /\ ops' = [ops EXCEPT ![Head(queue[c]).op].holds = TRUE]
    /\ Send(c, <<>>)
    /\ UNCHANGED <<data, counter, dirty>>

-----------------------------------------------------------------------------
(* get (lines 129-139) *)

\* Faulty variant of lines 134-136: the fields are handed over as the text Redis holds.
getDataUnparsed(h) == [f \in DOMAIN h |-> Str(h[f])]

\* lines 134-137: every field of the hash parsed.
getData(h) == [f \in DOMAIN h |-> JSONparse(h[f])]

\* line 135 throws in the callback of HGETALL: done is never called.
getThrows(h) == \E f \in DOMAIN h : JSONparseThrows(h[f])

-----------------------------------------------------------------------------
(* store (lines 45-127) *)

\* The value of an id: a number, or undefined for a model without one.
IdVal(id) == IF id = 0 THEN Undefined ELSE Num(id)

\* line 50, with lines 61-65 and 83-84: model.toJSON() with the embedded model
\* replaced by its id, and id and _rev set.
storeData(o) ==
    LET attrs == IF o.attr = Undefined THEN EmptyObj ELSE [f \in {"address"} |-> o.attr]
        dep == IF o.embeds THEN With(attrs, "child", IdVal(o.childId)) ELSE attrs
        deps == IF o.more THEN With(dep, "other", IdVal(o.otherId)) ELSE dep
    IN With(With(deps, "id", IdVal(o.id)), "_rev", Num(o.rev))

\* lines 85-88: the arguments of HMSET.
hmsetArgs(d) == [f \in DOMAIN d |-> JSONstringify(d[f])]

\* Faulty variant of lines 94-100: an update leaves the id in the lookup set of
\* the previous value.
lookupRemovalsNone(o, d) == {}

\* lines 94-100: the lookup sets the id is removed from.
lookupRemovals(o, d) ==
    IF o.hasPrev
    THEN {JSONstringify(Prop(o.previous, l)) :
            l \in {k \in lookups : Prop(o.previous, k) # Prop(d, k)}}
    ELSE {}

\* lines 101-103: the lookup sets the id is added to.
lookupAdditions(d) == {JSONstringify(Prop(d, l)) : l \in lookups}

\* Faulty variant of line 52: the id of the attributes is not looked at.
idChangedNever(o) == FALSE

\* line 52: typeof data.id !== 'undefined' && data.id !== id
idChanged(o) == o.dataId # {} /\ o.dataId # {o.id}

\* lines 31-32: item.attributes of an attribute that is null throws a TypeError
\* in the callback of HGET, and neither callback of options is called.
storeDependenciesThrows(o) == o.attr = Null

\* lines 67-71: the get or the batch a store goes on with.
storeContinue(i, o, rev) ==
    IF rev = 1 THEN <<Cmd(i, "EXEC", o.id)>> ELSE <<Cmd(i, "HGETALL", o.id)>>

\* lines 34-37 and 59-65: the callbacks item.save was given, once the save of
\* the embedded model i has answered. On success Backbone has set the id of the
\* answer on the embedded model, and the owner's attribute becomes that id.
\* async.forEach hands the first error to the callback of line 58 and calls it
\* no more; without an error it calls it when every save has answered.
Resume(after, i) ==
    LET p == after[i].parent
    IN IF p = 0 \/ after[i].outcome = "pending" THEN after
       ELSE IF after[p].outcome # "pending" THEN after
       ELSE IF after[i].outcome = "error"
       THEN [after EXCEPT ![p] = Failure(@, after[i].error)]
       ELSE IF after[i].slot = "child"
       THEN [after EXCEPT ![p].childId = after[i].resp["id"].n]
       ELSE [after EXCEPT ![p].otherId = after[i].resp["id"].n]

\* Faulty variant of the callback of line 58: the owner goes on after every save
\* that succeeded.
ResumeCmdsEach(after, i) ==
    LET p == after[i].parent
    IN IF p # 0 /\ after[i].outcome = "success"
       THEN storeContinue(p, after[p], after[p].rev)
       ELSE <<>>

ResumeCmds(after, i) ==
    LET p == after[i].parent
    IN IF /\ p # 0 /\ after[i].outcome = "success"
          /\ after[p].outcome = "pending"
          /\ \A j \in DOMAIN after : after[j].parent = p => after[j].outcome = "success"
       THEN storeContinue(p, after[p], after[p].rev)
       ELSE <<>>

\* A callback of op i has run: the ops are after, the commands cmds were sent,
\* and an owner waiting for op i goes on.
Answer(c, i, after, cmds) ==
    /\ ops' = Resume(after, i)
    /\ Send(c, cmds \o ResumeCmds(after, i))

\* lines 33-37: item.save({}, ...) of an embedded model without id is
\* sync('create', item, ...) on the same adapter.
childSave(c, i) ==
    [NewOp(c, "create", "model", 0, {}, Undefined, {}) EXCEPT !.parent = i]

\* lines 31-37: async.forEach calls the iterator for every value at once, so
\* every embedded model without id is saved before the first save has answered.
storeDependencies(c, i, o) ==
    IF o.more
    THEN <<childSave(c, i), [childSave(c, i) EXCEPT !.slot = "other"]>>
    ELSE <<childSave(c, i)>>

\* lines 47-72: the callback store hands to modify, with rev. For attributes that
\* are literal values storeDependencies (lines 30-43) calls back at once and
\* lines 61-65 replace nothing.
storeModified(c, i, o, rev) ==
    IF idChanged(o)
    THEN Answer(c, i, [ops EXCEPT ![i] = Failure(o, ErrChangeId)], <<>>)
    ELSE IF storeDependenciesThrows(o)
    THEN /\ ops' = [ops EXCEPT ![i] = [o EXCEPT !.rev = rev]]
         /\ Send(c, <<>>)
    ELSE IF o.embeds
    THEN LET saves == storeDependencies(c, i, o)
         IN /\ ops' = [ops EXCEPT ![i] = [o EXCEPT !.rev = rev]] \o saves
            /\ Send(c, [k \in 1..Len(saves) |-> Cmd(Len(ops) + k, "INCR", 0)])
    ELSE Answer(c, i, [ops EXCEPT ![i] = [o EXCEPT !.rev = rev]], storeContinue(i, o, rev))

\* lines 15-27: the reply of HGET in modify, and what the caller's callback does with it.
modifyHgetReply(c) ==
    /\ AtHead(c, "HGET")
    /\ LET i == Head(queue[c]).op
           reply == HGET(hashes[ops[i].id], "_rev")
           o == [ops[i] EXCEPT !.guarded = TRUE, !.stored = ToInt32(reply)]
       IN IF modifyAccepts(reply, o.mrev)
          THEN IF o.method = "delete"
               THEN /\ ops' = [ops EXCEPT ![i] = [o EXCEPT !.rev = modifyRev(reply)]]
                    /\ Send(c, <<Cmd(i, "HGETALL", o.id)>>)
               ELSE storeModified(c, i, o, modifyRev(reply))
          ELSE /\ ops' = [ops EXCEPT ![i] = o]
               /\ Send(c, <<Cmd(i, "UNWATCH", o.id)>>)
    /\ UNCHANGED <<data, counter, conn>>

\* lines 19-25: the reply of UNWATCH; store (line 48) reports the error, destroy
\* (lines 180-181) ignores it and goes on.
modifyUnwatchReply(c) ==
    /\ AtHead(c, "UNWATCH")
    /\ Unwatch(c)
    /\ LET i == Head(queue[c]).op
           o == ops[i]
       IN IF o.method = "delete"
          THEN Answer(c, i, Released(ops, c), <<Cmd(i, "HGETALL", o.id)>>)
          ELSE Answer(c, i, Released([ops EXCEPT ![i] = Failure(o, ErrMismatch)], c), <<>>)
    /\ UNCHANGED <<data, counter>>

\* lines 70, 74-111: get answers and execMulti(err, previous) queues the batch.
storeGetReply(c) ==
    /\ AtHead(c, "HGETALL")
    /\ LET i == Head(queue[c]).op
           o == ops[i]
           h == hashes[o.id]
       IN /\ o.method \in {"create", "update"}
          /\ IF h = NoHash
             THEN Answer(c, i, [ops EXCEPT ![i] = Failure(o, ErrNotExist(o.id))], <<>>)
             ELSE IF getThrows(h)
             THEN Answer(c, i, ops, <<>>)
             ELSE Answer(c, i, [ops EXCEPT ![i].hasPrev = TRUE, ![i].previous = getData(h)],
                         <<Cmd(i, "EXEC", o.id)>>)
    /\ UNCHANGED <<data, counter, conn>>

\* Faulty variant of lines 117-123: every store answers the id.
storeRespWithId(o) ==
    [f \in {"id", "_rev"} |-> IF f = "id" THEN IdVal(o.id) ELSE Num(o.rev)]

\* lines 119-122: what a store reports when EXEC answers without error.
storeResp(o) ==
    IF o.rev = 1
    THEN [f \in {"id", "_rev"} |-> IF f = "id" THEN IdVal(o.id) ELSE Num(o.rev)]
    ELSE [f \in {"_rev"} |-> Num(o.rev)]

\* lines 77-124: MULTI ... EXEC of execMulti reaches the server and its reply
\* runs the callback of line 114. A refused EXEC answers null with no error.
execMultiReply(c) ==
    /\ AtHead(c, "EXEC")
    /\ LET i == Head(queue[c]).op
           o == ops[i]
           d == storeData(o)
           rem == lookupRemovals(o, d)
           add == lookupAdditions(d)
       IN /\ o.method \in {"create", "update"}
          /\ IF dirty[c]
             THEN /\ Unwatch(c)
                  /\ UNCHANGED data
                  /\ Answer(c, i, Released([ops EXCEPT ![i] = Success(o, storeResp(o))], c), <<>>)
             ELSE /\ ExecWrote(c, {o.id})
                  /\ hashes' = [hashes EXCEPT ![o.id] = HMSET(@, hmsetArgs(d))]
                  /\ lookupSets' = [b \in Buckets |->
                        LET removed == IF b \in rem THEN SREM(lookupSets[b], o.id)
                                       ELSE lookupSets[b]
                        IN IF b \in add THEN SADD(removed, o.id) ELSE removed]
                  /\ typeSet' = IF o.rev = 1 THEN SADD(typeSet, o.id) ELSE typeSet
                  /\ Answer(c, i, Released(Overtake([ops EXCEPT ![i] =
                               [Success(o, storeResp(o)) EXCEPT !.applied = TRUE]], i, o.id), c),
                            <<>>)
    /\ UNCHANGED counter

-----------------------------------------------------------------------------
(* destroy (lines 179-203) *)

\* lines 181-191: get answers; the batch is queued unless the model is gone.
destroyGetReply(c) ==
    /\ AtHead(c, "HGETALL")
    /\ LET i == Head(queue[c]).op
           o == ops[i]
           h == hashes[o.id]
       IN /\ o.method = "delete"
          /\ IF h = NoHash
             THEN Answer(c, i, [ops EXCEPT ![i] = Failure(o, ErrNotExist(o.id))], <<>>)
             ELSE IF getThrows(h)
             THEN Answer(c, i, ops, <<>>)
             ELSE Answer(c, i, [ops EXCEPT ![i].hasPrev = TRUE, ![i].previous = getData(h)],
                         <<Cmd(i, "EXEC", o.id)>>)
    /\ UNCHANGED <<data, counter, conn>>

\* lines 188-191: the lookup sets the id is removed from.
destroyRemovals(o) == {JSONstringify(Prop(o.previous, l)) : l \in lookups}

\* lines 184-200: MULTI DEL SREM ... EXEC of destroy and the callback of line 194.
destroyExecReply(c) ==
    /\ AtHead(c, "EXEC")
    /\ LET i == Head(queue[c]).op
           o == ops[i]
           rem == destroyRemovals(o)
       IN /\ o.method = "delete"
          /\ IF dirty[c]
             THEN /\ Unwatch(c)
                  /\ UNCHANGED data
                  /\ ops' = Released([ops EXCEPT ![i] = Success(o, EmptyObj)], c)
             ELSE /\ ExecWrote(c, IF hashes[o.id] = NoHash THEN {} ELSE {o.id})
                  /\ hashes' = [hashes EXCEPT ![o.id] = NoHash]
                  /\ typeSet' = SREM(typeSet, o.id)
                  /\ lookupSets' = [b \in Buckets |->
                        IF b \in rem THEN SREM(lookupSets[b], o.id) ELSE lookupSets[b]]
                  /\ ops' = Released(
                              IF hashes[o.id] = NoHash
                              THEN [ops EXCEPT ![i] = [Success(o, EmptyObj) EXCEPT !.applied = TRUE]]
                              ELSE Overtake([ops EXCEPT ![i] =
                                      [Success(o, EmptyObj) EXCEPT !.applied = TRUE]], i, o.id), c)
          /\ Send(c, <<>>)
    /\ UNCHANGED counter

-----------------------------------------------------------------------------
(* retrieve, retrieveAll, retrieveByProperty (lines 141-177) *)

\* Faulty variant of lines 168-177: the read ends the watches of its connection.
retrieveReplyUnwatch(c) ==
    /\ AtHead(c, "HGETALL")
    /\ LET i == Head(queue[c]).op
           o == ops[i]
           h == hashes[o.id]
       IN /\ o.method = "read" /\ o.target = "model"
          /\ ops' = [ops EXCEPT ![i] = IF h = NoHash THEN Failure(o, ErrNotExist(o.id))
                                        ELSE IF getThrows(h) THEN o
                                        ELSE Success(o, getData(h))]
    /\ Send(c, <<>>)
    /\ Unwatch(c)
    /\ UNCHANGED <<data, counter>>

\* lines 168-177: the reply of HGETALL of a single read.
retrieveReply(c) ==
    /\ AtHead(c, "HGETALL")
    /\ LET i == Head(queue[c]).op
           o == ops[i]
           h == hashes[o.id]
       IN /\ o.method = "read" /\ o.target = "model"
          /\ ops' = [ops EXCEPT ![i] = IF h = NoHash THEN Failure(o, ErrNotExist(o.id))
                                        ELSE IF getThrows(h) THEN o
                                        ELSE Success(o, getData(h))]
    /\ Send(c, <<>>)
    /\ UNCHANGED <<data, counter, conn>>

\* line 155: the key of the lookup set of a value.
lookupKey(value) == JSONstringify(value)

\* lines 142-146 and 156-160: the reply of SMEMBERS; async.map calls get for
\* every member, and answers at once when there is none.
retrieveAllReply(c) ==
    /\ AtHead(c, "SMEMBERS")
    /\ LET i == Head(queue[c]).op
           o == ops[i]
           set == IF o.target # "lookup" THEN typeSet
                  ELSE IF o.key \in lookups THEN lookupSets[lookupKey(o.attr)]
                  ELSE {}   \* no set is ever stored for a property that is not declared
           members == SMEMBERS(set)
       IN IF members = <<>>
          THEN /\ ops' = [ops EXCEPT ![i] = [Success(o, EmptyObj) EXCEPT !.typeAt = set]]
               /\ Send(c, <<>>)
          ELSE /\ ops' = [ops EXCEPT ![i].members = members, ![i].typeAt = set]
               /\ Send(c, [k \in 1..Len(members) |-> Cmd(i, "HGETALL", members[k])])
    /\ UNCHANGED <<data, counter, conn>>

\* Faulty variant of lines 147-149: the results are reported when the first
\* one is in.
mapDoneFirst(results, members) == Len(results) >= 1

\* lines 145-150 and 159-164: async.map has a result for every member.
mapDone(results, members) == Len(results) = Len(members)

\* lines 145-150 and 159-164: get of one member answers; the first error is
\* reported at once, the results are reported when the last one is in.
retrieveMemberReply(c) ==
    /\ AtHead(c, "HGETALL")
    /\ LET i == Head(queue[c]).op
           o == ops[i]
           h == hashes[Head(queue[c]).key]
       IN /\ o.method = "read" /\ o.target # "model"
          /\ ops' = [ops EXCEPT ![i] =
                IF o.outcome # "pending" THEN o
                ELSE IF h = NoHash THEN Failure(o, ErrNotExist(Head(queue[c]).key))
                ELSE IF getThrows(h) THEN o
                ELSE LET r == [o EXCEPT !.results = Append(@, getData(h)),
                                        !.seen = Append(@, h)]
                     IN IF mapDone(r.results, o.members) THEN Success(r, EmptyObj) ELSE r]
    /\ Send(c, <<>>)
    /\ UNCHANGED <<data, counter, conn>>

-----------------------------------------------------------------------------
(* sync (lines 206-248) *)

\* the values of model.get('_rev') a caller passes: none, 1 or 2
ModelRevs == {{}, {1}, {2}}

\* the sync() invocations of the caller (the others are saves of embedded models)
Calls == {i \in 1..Len(ops) : ops[i].parent = 0}

Call(c, o, cmds) ==
    /\ Cardinality(Calls) < MaxOps
    /\ ops' = Append(ops, o)
    /\ queue' = [queue EXCEPT ![c] = @ \o cmds]
    /\ UNCHANGED <<data, counter, conn>>

\* the ids INCR has handed out or will hand out to the creates in flight and to
\* the embedded models still to be saved
Allocated ==
    counter
    + Cardinality({i \in 1..Len(ops) : ops[i].method = "create" /\ ops[i].id = 0})
    + Cardinality({i \in 1..Len(ops) :
                     /\ ops[i].embeds /\ ops[i].outcome = "pending"
                     /\ \A j \in 1..Len(ops) : ops[j].parent # i})
    + Cardinality({i \in 1..Len(ops) :
                     /\ ops[i].more /\ ops[i].outcome = "pending"
                     /\ \A j \in 1..Len(ops) : ops[j].parent # i})

\* lines 212-217
syncCreate(c, attr) ==
    /\ Allocated + 1 \in Ids
    /\ Call(c, NewOp(c, "create", "model", 0, {}, attr, {}),
               <<Cmd(Len(ops) + 1, "INCR", 0)>>)

\* Faulty variant of line 213: the id is one more than the counter, and the
\* counter is not written back.
createIncrNotStored(c) ==
    /\ AtHead(c, "INCR")
    /\ counter' = counter
    /\ LET i == Head(queue[c]).op
       IN /\ ops' = [ops EXCEPT ![i].id = counter + 1]
          /\ Send(c, modify(i, counter + 1))
    /\ UNCHANGED <<data, conn>>

\* lines 213-216: the reply of INCR; store(id, model, options) starts with modify.
createIncrReply(c) ==
    /\ AtHead(c, "INCR")
    /\ counter' = counter + 1
    /\ LET i == Head(queue[c]).op
       IN /\ ops' = [ops EXCEPT ![i].id = counter']
          /\ Send(c, modify(i, counter'))
    /\ UNCHANGED <<data, conn>>

\* lines 239-241, for a model whose toJSON() has the id dataId
syncUpdateData(c, id, mrev, attr, dataId) ==
    Call(c, NewOp(c, "update", "model", id, mrev, attr, dataId), modify(Len(ops) + 1, id))

\* lines 239-241
syncUpdate(c, id, mrev, attr) == syncUpdateData(c, id, mrev, attr, {id})

\* lines 242-244
syncDelete(c, id, mrev) ==
    Call(c, NewOp(c, "delete", "model", id, mrev, Undefined, {id}), modify(Len(ops) + 1, id))

\* lines 230-237
syncRead(c, id) ==
    Call(c, NewOp(c, "read", "model", id, {}, Undefined, {id}),
            <<Cmd(Len(ops) + 1, "HGETALL", id)>>)

\* lines 227-229
syncReadAll(c) ==
    Call(c, NewOp(c, "read", "collection", 0, {}, Undefined, {}),
            <<Cmd(Len(ops) + 1, "SMEMBERS", 0)>>)

\* lines 220-226, the lookup being declared
syncReadLookup(c, value) ==
    Call(c, NewOp(c, "read", "lookup", 0, {}, value, {}),
            <<Cmd(Len(ops) + 1, "SMEMBERS", 0)>>)

\* lines 206-248: sync(method, model, options) of adapter c.
sync(c) ==
    \/ \E attr \in Vals \cup {Undefined} : syncCreate(c, attr)
    \/ \E id \in Ids, mrev \in ModelRevs, attr \in Vals \cup {Undefined} :
          syncUpdate(c, id, mrev, attr)
    \/ \E id \in Ids, mrev \in ModelRevs : syncDelete(c, id, mrev)
    \/ \E id \in Ids : syncRead(c, id)
    \/ syncReadAll(c)
    \/ \E value \in Vals : syncReadLookup(c, value)

\* lines 212-217 and 239-241, for a model whose attribute "child" is a model
\* that has attributes and no id.
syncCreateDep(c, attr) ==
    /\ Allocated + 2 \in Ids
    /\ Call(c, [NewOp(c, "create", "model", 0, {}, attr, {}) EXCEPT !.embeds = TRUE],
               <<Cmd(Len(ops) + 1, "INCR", 0)>>)

syncUpdateDep(c, id, mrev, attr) ==
    /\ Allocated + 1 \in Ids
    /\ Call(c, [NewOp(c, "update", "model", id, mrev, attr, {id}) EXCEPT !.embeds = TRUE],
               modify(Len(ops) + 1, id))

\* lines 239-241, for a model whose attributes "child" and "other" are both
\* models that have attributes and no id.
syncUpdateDeps(c, id, mrev) ==
    /\ Allocated + 2 \in Ids
    /\ Call(c, [NewOp(c, "update", "model", id, mrev, Undefined, {id})
                  EXCEPT !.embeds = TRUE, !.more = TRUE],
               modify(Len(ops) + 1, id))

\* sync of a model that embeds an unsaved model.
syncDep(c) ==
    \/ \E attr \in Vals \cup {Undefined} : syncCreateDep(c, attr)
    \/ \E id \in Ids, mrev \in ModelRevs, attr \in Vals \cup {Undefined} :
          syncUpdateDep(c, id, mrev, attr)

\* options.error is called before sync returns: no command is sent.
Reject(c, o, err) ==
    /\ Cardinality(Calls) < MaxOps
    /\ ops' = Append(ops, Failure(o, err))
    /\ UNCHANGED <<data, counter, conn, queue>>

\* The properties a caller asks to look up by.
LookupKeys == {"address", "name"}

\* Faulty variant of line 221: every property can be looked up by.
lookupDeclaredAny(key) == TRUE

\* line 221: typeof model.model.prototype.lookups[options.lookup.key] !== 'undefined'
lookupDeclared(key) == key \in lookups

\* lines 220-226
syncReadLookupBy(c, key, value) ==
    IF lookupDeclared(key)
    THEN Call(c, [NewOp(c, "read", "lookup", 0, {}, value, {}) EXCEPT !.key = key],
                 <<Cmd(Len(ops) + 1, "SMEMBERS", 0)>>)
    ELSE Reject(c, [NewOp(c, "read", "lookup", 0, {}, value, {}) EXCEPT !.key = key],
                   ErrLookup(key))

\* lines 232-235: a read of a model that has no id
syncReadNoId(c) ==
    Reject(c, NewOp(c, "read", "model", 0, {}, Undefined, {}), ErrIdRequired)

\* lines 212-217, for a model whose toJSON() has an id
syncCreateData(c, attr, dataId) ==
    /\ Allocated + 1 \in Ids
    /\ Call(c, NewOp(c, "create", "model", 0, {}, attr, dataId),
               <<Cmd(Len(ops) + 1, "INCR", 0)>>)

\* lines 212-217, for a model that has no id and carries _rev (a copy of a
\* stored model without its id): store is handed the model, and line 16 reads
\* its _rev.
syncCreateRev(c, mrev) ==
    /\ Allocated + 1 \in Ids
    /\ Call(c, NewOp(c, "create", "model", 0, mrev, Undefined, {}),
               <<Cmd(Len(ops) + 1, "INCR", 0)>>)

\* The operation kinds a caller can pass beside the four of Backbone.
OtherMethods == {"patch"}

\* Faulty variant of lines 245-246: an unknown kind is ignored.
syncInvalidIgnored(c, method) ==
    /\ Cardinality(Calls) < MaxOps
    /\ ops' = Append(ops, NewOp(c, method, "model", 0, {}, Undefined, {}))
    /\ UNCHANGED <<data, counter, conn, queue>>

\* lines 245-246
syncInvalid(c, method) ==
    Reject(c, NewOp(c, method, "model", 0, {}, Undefined, {}), ErrInvalidMethod(method))

\* sync as a caller other than Backbone's save, fetch and destroy can call it:
\* with a lookup that is not declared, without an id, with a model whose
\* attributes hold another id or null, and with an unknown kind; and the save
\* of a model without id that carries _rev.
syncDirect(c) ==
    \/ \E key \in LookupKeys \ lookups : syncReadLookupBy(c, key, Num(1))
    \/ syncReadNoId(c)
    \/ \E mrev \in {{}, {1}} : syncUpdateData(c, 0, mrev, Undefined, {})
    \/ syncDelete(c, 0, {})
    \/ \E mrev \in ModelRevs : syncUpdateData(c, 1, mrev, Undefined, {2})
    \/ syncCreateData(c, Undefined, {1})
    \/ syncCreate(c, Null)
    \/ \E mrev \in ModelRevs : syncUpdate(c, 1, mrev, Null)
    \/ \E method \in OtherMethods : syncInvalid(c, method)
    \/ syncCreateRev(c, {1})

Reply ==
    \E c \in Clients :
        \/ createIncrReply(c)
        \/ modifyWatch(c)
        \/ modifyHgetReply(c)
        \/ modifyUnwatchReply(c)
        \/ storeGetReply(c)
        \/ execMultiReply(c)
        \/ destroyGetReply(c)
        \/ destroyExecReply(c)
        \/ retrieveReply(c)
        \/ retrieveAllReply(c)
        \/ retrieveMemberReply(c)

Next == (\E c \in Clients : sync(c)) \/ Reply

Spec == Init /\ [][Next]_vars

\* The caller of the test suite (test/backbone-redis.test.js): one adapter, and
\* every call waits for the callback of the call before.
Quiet == \A c \in Clients : queue[c] = <<>>

SeqNext == (Quiet /\ sync("c1")) \/ Reply

SeqSpec == Init /\ [][SeqNext]_vars

\* An adapter that reads, beside another adapter that creates, updates and
\* deletes models on the same store.
syncReader(c) ==
    \/ syncReadAll(c)
    \/ syncRead(c, 1)
    \/ syncReadLookup(c, Str(<<"1">>))

syncWriter(c) ==
    \/ syncCreate(c, Undefined)
    \/ \E id \in Ids, mrev \in {{1}, {2}} : syncUpdate(c, id, mrev, Str(<<"1">>))
    \/ \E id \in Ids : syncDelete(c, id, {1})

ReadNext == syncReader("c1") \/ syncWriter("c2") \/ Reply

ReadSpec == Init /\ [][ReadNext]_vars

\* Two adapters on the same store, each with a caller that waits for the
\* callback of its call before the next call.
PairNext ==
    \/ \E c \in Clients : queue[c] = <<>> /\ (syncReader(c) \/ syncWriter(c))
    \/ Reply

PairSpec == Init /\ [][PairNext]_vars

\* One adapter and a caller that waits for the replies and calls sync in every
\* way its signature allows: the reads and writes above and the calls of
\* syncDirect.
ApiNext == (Quiet /\ (syncReader("c1") \/ syncWriter("c1") \/ syncDirect("c1"))) \/ Reply

ApiSpec == Init /\ [][ApiNext]_vars

\* An adapter that saves models with an embedded unsaved model, beside another
\* adapter on the same store.
DepNext == syncDep("c1") \/ sync("c2") \/ Reply

DepSpec == Init /\ [][DepNext]_vars

\* A store in which updates with ids the caller chose have written the models
\* of ids: each hash holds id and _rev 1, and INCR was never sent.
AfterUpdates(ids) ==
    /\ hashes = [i \in Keys |->
                   IF i \in ids THEN hmsetArgs(With(With(EmptyObj, "id", Num(i)), "_rev", Num(1)))
                   ELSE NoHash]
    /\ typeSet = ids
    /\ lookupSets = [b \in Buckets |-> IF b = JSONstringify(Undefined) THEN ids ELSE {}]
    /\ counter = 0

EmbedInit ==
    /\ \E ids \in SUBSET Ids : AfterUpdates(ids)
    /\ watched = [c \in Clients |-> {}]
    /\ dirty = [c \in Clients |-> FALSE]
    /\ queue = [c \in Clients |-> <<>>]
    /\ ops = <<>>

\* An adapter that updates models with two embedded unsaved models, beside
\* another adapter on the same store whose caller waits for the callback of a
\* call before the next call.
EmbedNext ==
    \/ \E id \in Ids, mrev \in {{}, {1}} : syncUpdateDeps("c1", id, mrev)
    \/ (queue["c2"] = <<>> /\ (syncWriter("c2") \/ syncReader("c2")))
    \/ Reply

EmbedSpec == EmbedInit /\ [][EmbedNext]_vars

-----------------------------------------------------------------------------
(* What the claims speak of. *)

OpIds == 1..Len(ops)
Done(o) == o.outcome # "pending"
IsStore(o) == o.method \in {"create", "update"}
IsWrite(o) == o.method \in {"create", "update", "delete"}
Exists(id) == hashes[id] # NoHash
StoredRev(id) == ToInt32(HGET(hashes[id], "_rev"))

\* modify of o read a stored _rev that is not the model's _rev.
Mismatch(o) == o.guarded /\ o.stored # 0 /\ o.mrev # {o.stored}

\* The step handles a reply to op i.
StepOf(i) ==
    /\ Len(ops') = Len(ops)
    /\ \E c \in Clients :
         queue[c] # <<>> /\ Head(queue[c]).op = i /\ queue'[c] # queue[c]

InFlight(i) == \E c \in Clients : \E k \in 1..Len(queue[c]) : queue[c][k].op = i

-----------------------------------------------------------------------------
\* C1: two updates of the same (type, id), both called with the expected revision
\* r that is stored at the call, end with exactly one success, which answers
\* _rev = r + 1, and one 'Revision number mismatch' (409), however their
\* round trips interleave.
C1_ExactlyOneUpdateWins ==
    \A i, j \in OpIds :
        ( /\ i < j
          /\ ops[i].method = "update" /\ ops[j].method = "update"
          /\ ops[i].id = ops[j].id
          /\ ops[i].mrev = {ops[i].startRev} /\ ops[j].mrev = {ops[j].startRev}
          /\ ops[i].startRev = ops[j].startRev
          /\ Done(ops[i]) /\ Done(ops[j]) )
        => \E w, l \in {i, j} :
              /\ w # l
              /\ ops[w].outcome = "success"
              /\ ops[w].resp = [f \in {"_rev"} |-> Num(ops[w].startRev + 1)]
              /\ ops[l].outcome = "error"
              /\ ops[l].error = ErrMismatch

\* C2: an update, or a save, whose modify reads a stored _rev that differs from
\* the model's _rev never calls options.success, calls options.error with
\* 'Revision number mismatch' (409) when its UNWATCH has answered, and no reply
\* to it changes a hash, the type set or a lookup set.
C2_MismatchIsConflict ==
    [][ \A i \in OpIds :
          LET o == ops'[i]
          IN (IsStore(o) /\ Mismatch(o)) =>
                /\ o.outcome # "success"
                /\ ~o.applied
                /\ o.outcome = "error" => o.error = ErrMismatch
                /\ o.outcome = "pending" => InFlight(i)'
                /\ StepOf(i) => data' = data ]_vars

\* C2 witness: a store that found another revision has reported the conflict.
C2_Witness ==
    \E i \in OpIds :
        /\ IsStore(ops[i]) /\ Mismatch(ops[i])
        /\ ops[i].outcome = "error" /\ ops[i].error = ErrMismatch

\* C3: every stored model has _rev >= 1, and every create or update that
\* reports success has moved the stored _rev from r to r + 1 (to 1 when there
\* was none).
C3_RevIncrementsByOne ==
    [][ /\ \A id \in Ids : hashes'[id] # NoHash => ToInt32(HGET(hashes'[id], "_rev")) >= 1
        /\ \A i \in OpIds :
              ( /\ Len(ops') = Len(ops)
                /\ IsStore(ops[i])
                /\ ops[i].outcome = "pending" /\ ops'[i].outcome = "success" )
              => ToInt32(HGET(hashes'[ops[i].id], "_rev")) = StoredRev(ops[i].id) + 1 ]_vars

\* C4: the id of every stored model is in the lookup set of the stored value of
\* every declared lookup and in no other lookup set, and no lookup set holds
\* the id of a model that has no hash.
C4_LookupsMatchStored ==
    /\ \A id \in Ids : Exists(id) =>
          \A l \in lookups, b \in Buckets :
             id \in lookupSets[b] <=> b = JSONstringify(Prop(getData(hashes[id]), l))
    /\ \A b \in Buckets : \A id \in lookupSets[b] : Exists(id)

\* C5: an id is in the type set exactly if a hash is stored under it.
C5_TypeSetIsStored == \A id \in Ids : id \in typeSet <=> Exists(id)

\* C6: a create, update or delete reports success only if its batch was
\* applied; when the reply of its EXEC leaves the batch unapplied, options.error
\* is called and the hashes, the type set and the lookup sets are unchanged.
C6_SuccessOnlyIfApplied ==
    [][ \A i \in OpIds :
          ( /\ StepOf(i)
            /\ IsWrite(ops[i])
            /\ \E c \in Clients : AtHead(c, "EXEC") /\ Head(queue[c]).op = i )
          => \/ ops'[i].applied /\ ops'[i].outcome = "success"
             \/ ~ops'[i].applied /\ ops'[i].outcome = "error" /\ data' = data ]_vars

\* C7: a create, update or delete whose key was written by another operation
\* after its modify read the revision and before its own EXEC applies none of
\* its writes.
C7_OvertakenNeverApplies ==
    \A i \in OpIds : ops[i].overtaken => ~ops[i].applied

\* What the caller of a create submitted, with the id and the _rev it was told.
Submitted(o) ==
    LET attrs == IF o.attr = Undefined THEN EmptyObj ELSE [f \in {"address"} |-> o.attr]
    IN With(With(attrs, "id", o.resp["id"]), "_rev", Num(1))

\* Op i + 1 is a read of the model that create i has just reported stored.
ReadsCreated(i) ==
    /\ i + 1 \in OpIds
    /\ ops[i].method = "create" /\ ops[i].outcome = "success"
    /\ ops[i + 1].method = "read" /\ ops[i + 1].target = "model"
    /\ Num(ops[i + 1].id) = ops[i].resp["id"]
    /\ Done(ops[i + 1])

\* C8: a read of the id a create returned, made when the create has answered,
\* succeeds with the submitted attributes plus that id and _rev = 1.
C8_CreateThenRead ==
    \A i \in OpIds :
        ReadsCreated(i) =>
            /\ ops[i].resp["_rev"] = Num(1)
            /\ ops[i + 1].outcome = "success"
            /\ ops[i + 1].resp = Submitted(ops[i])

\* C8 witness: a created model with an address (a string) has been read back.
C8_Witness ==
    \E i \in OpIds :
        /\ ReadsCreated(i)
        /\ ops[i].attr.t = "string"
        /\ ops[i + 1].outcome = "success"

\* Op i is an update that reported success and changed the stored address, and
\* op i + 1 is a finished lookup read.
LookupAfterChange(i) ==
    /\ i + 1 \in OpIds
    /\ ops[i].method = "update" /\ ops[i].outcome = "success"
    /\ ops[i].hasPrev /\ Prop(ops[i].previous, "address") # ops[i].attr
    /\ ops[i + 1].method = "read" /\ ops[i + 1].target = "lookup"
    /\ Done(ops[i + 1])

Returned(o, id) == \E k \in 1..Len(o.results) : Prop(o.results[k], "id") = Num(id)

\* C9: after an update has changed the address of a model from A to B, a lookup
\* read for B returns the model and a lookup read for any other value (A, or
\* the same text in another type) does not.
C9_LookupFollowsUpdate ==
    \A i \in OpIds :
        LookupAfterChange(i) =>
            /\ ops[i + 1].outcome = "success"
            /\ Returned(ops[i + 1], ops[i].id) <=> ops[i + 1].attr = ops[i].attr

\* C9 witness: the address went from the number 1 to the string "1" and the
\* lookup for the number 1 has answered.
C9_Witness ==
    \E i \in OpIds :
        /\ LookupAfterChange(i)
        /\ Prop(ops[i].previous, "address") = Num(1)
        /\ ops[i].attr = Str(<<"1">>)
        /\ ops[i + 1].attr = Num(1)
        /\ ops[i + 1].outcome = "success"

\* C10: when a delete reports success, no hash is stored under the id (a read
\* answers 'Model does not exist'), the id is not in the type set and it is in
\* no lookup set.
C10_DeletedIsGone ==
    [][ \A i \in OpIds :
          ( /\ Len(ops') = Len(ops)
            /\ ops[i].method = "delete"
            /\ ops[i].outcome = "pending" /\ ops'[i].outcome = "success" )
          => /\ hashes'[ops[i].id] = NoHash
             /\ ops[i].id \notin typeSet'
             /\ \A b \in Buckets : ops[i].id \notin lookupSets'[b] ]_vars

-----------------------------------------------------------------------------
\* The save of the model embedded in the model of op p.
ChildOf(p) == {j \in OpIds : ops[j].parent = p}

\* C11: when the batch of a model that embeds an unsaved model is applied, the
\* batch of the embedded model has been applied before, and the field of the
\* owner's hash holds the id the embedded model was given and nothing else; no
\* stored hash ever holds anything but the text of an id in that field.
C11_ChildSavedFirst ==
    [][ /\ \A p \in OpIds :
              ( /\ Len(ops') = Len(ops)
                /\ ops[p].embeds /\ ~ops[p].applied /\ ops'[p].applied )
              => \E j \in ChildOf(p) :
                    /\ ops[j].applied
                    /\ HGET(hashes'[ops[p].id], "child") = JSONstringify(Num(ops[j].id))
        /\ \A k \in Keys :
              "child" \in DOMAIN hashes'[k] =>
                  hashes'[k]["child"] \in {JSONstringify(Num(i)) : i \in Ids} ]_vars

\* Op o is a collection read with a lookup on a property that is not declared.
Undeclared(o) == o.method = "read" /\ o.target = "lookup" /\ o.key \notin lookups

\* C12: a collection read with a lookup on a property that is not declared has
\* called options.error with 'Cannot lookup by property "<key>"' when sync
\* returns, never calls options.success, sends no command, and its call leaves
\* the store and the connection as they were.
C12_UndeclaredLookupRejected ==
    [][ \A i \in 1..Len(ops') :
          Undeclared(ops'[i]) =>
              /\ ops'[i].outcome = "error"
              /\ ops'[i].error.message = "Cannot lookup by property \"name\""
              /\ ops'[i].error = ErrLookup(ops'[i].key)
              /\ ops'[i].calls = 1
              /\ ~InFlight(i)'
              /\ i > Len(ops) => UNCHANGED <<data, counter, conn, queue>> ]_vars

\* C12 witness: a lookup by "name" has been rejected while a model is stored.
C12_Witness ==
    \E i \in OpIds :
        /\ Undeclared(ops[i])
        /\ ops[i].error = ErrLookup("name")
        /\ \E id \in Ids : Exists(id)

\* The callback of options of op i runs in this step.
Answers(i) == i \in OpIds /\ ops[i].calls = 0 /\ ops'[i].calls > 0

\* C13: when options.success or options.error of a create, update or delete is
\* called, the WATCH its modify set is no longer in force on the connection.
C13_WatchReleased ==
    [][ \A i \in OpIds :
          (IsWrite(ops[i]) /\ Answers(i)) => ~ops'[i].holds ]_vars

\* C14: a delete whose modify reads a stored _rev that differs from the model's
\* _rev never calls options.success, calls options.error with 'Revision number
\* mismatch' (409), and no reply to it removes the hash, the id from the type
\* set or the id from a lookup set.
C14_DeleteMismatchIsConflict ==
    [][ \A i \in OpIds :
          LET o == ops'[i]
          IN (o.method = "delete" /\ Mismatch(o)) =>
                /\ o.outcome # "success"
                /\ ~o.applied
                /\ o.outcome = "error" => o.error = ErrMismatch
                /\ StepOf(i) => data' = data ]_vars

\* An attribute map as get hands it over: it has the id and the revision.
IsAttributeMap(m, id) == {"id", "_rev"} \subseteq DOMAIN m /\ m["id"] = IdVal(id)

\* The results of the kinds that do not store: {} for a delete, one attribute
\* map for a read of a model, an array of attribute maps for a collection.
OtherShapes(o) ==
    /\ o.method = "delete" => o.resp = EmptyObj
    /\ (o.method = "read" /\ o.target = "model") => IsAttributeMap(o.resp, o.id)
    /\ (o.method = "read" /\ o.target # "model") =>
           /\ Len(o.results) = Len(o.members)
           /\ \A k \in 1..Len(o.results) : IsAttributeMap(o.results[k], o.members[k])

OtherId(o) ==
    /\ IsStore(o)
    /\ o.method = "create" => o.id # 0
    /\ o.dataId # {} /\ o.dataId # {o.id}

\* The id field of every stored hash is the id in its key.
IdIsKey == \A k \in Keys : hashes[k] # NoHash => hashes[k]["id"] = JSONstringify(IdVal(k))

\* C16 as stated: a store of a model whose attributes carry an id other than the
\* one it is stored under never succeeds, fails with 'Changing the ID of an
\* existing model is not possible', and no reply to it changes the store; the id
\* field of a stored hash is always the id of its key.
C16_IdChangeRejected ==
    [][ /\ \A i \in OpIds :
              LET o == ops'[i]
              IN OtherId(o) =>
                    /\ o.outcome # "success"
                    /\ o.outcome = "error" => o.error = ErrChangeId
                    /\ o.outcome = "pending" => InFlight(i)'
                    /\ (StepOf(i) /\ OtherId(ops[i])) => (data' = data /\ counter' = counter)
        /\ IdIsKey' ]_vars

\* C16 as amended: such a store fails with 'Changing the ID of an existing model
\* is not possible' when modify accepts the revision and with 'Revision number
\* mismatch' (409) when modify, which runs first, does not.
C16_IdChangeOrMismatch ==
    [][ /\ \A i \in OpIds :
              LET o == ops'[i]
              IN OtherId(o) =>
                    /\ o.outcome # "success"
                    /\ o.outcome = "error" =>
                          o.error = IF Mismatch(o) THEN ErrMismatch ELSE ErrChangeId
                    /\ o.outcome = "pending" => InFlight(i)'
                    /\ (StepOf(i) /\ OtherId(ops[i])) => (data' = data /\ counter' = counter)
        /\ IdIsKey' ]_vars

\* C16 witness: an update of a stored model under another id was let through by
\* modify and rejected.
C16_Witness ==
    \E i \in OpIds :
        /\ OtherId(ops[i]) /\ ops[i].stored # 0
        /\ ops[i].error = ErrChangeId
        /\ Exists(ops[i].id)

\* Op o is a read, update or delete of a single model that has no id.
NoId(o) ==
    /\ o.parent = 0 /\ o.target = "model"
    /\ o.method \in {"read", "update", "delete"}
    /\ o.id = 0

\* C17: a read, update or delete of a single model without an id has failed
\* with a missing-id error when sync returns ('An id is required to load models'
\* for a read), never calls options.success, and sends no command that reads or
\* writes the store.
C17_MissingIdRejected ==
    \A i \in OpIds :
        NoId(ops[i]) =>
            /\ ops[i].outcome = "error"
            /\ ops[i].method = "read" => ops[i].error = ErrIdRequired
            /\ ops[i].error # ErrNotExist(0)
            /\ ~InFlight(i)
            /\ ~ops[i].guarded /\ ~ops[i].applied

\* Op o is a call with a kind other than create, read, update, delete.
OtherKind(o) == o.parent = 0 /\ o.method \notin {"create", "read", "update", "delete"}

\* C18: a sync with a kind other than create, read, update and delete has
\* called options.error with 'Invalid method <kind>' when it returns, never
\* calls options.success and sends no command.
C18_InvalidMethodRejected ==
    [][ \A i \in 1..Len(ops') :
          OtherKind(ops'[i]) =>
              /\ ops'[i].outcome = "error"
              /\ ops'[i].error.message = "Invalid method patch"
              /\ ops'[i].error = ErrInvalidMethod(ops'[i].method)
              /\ ops'[i].calls = 1
              /\ ~InFlight(i)'
              /\ i > Len(ops) => UNCHANGED <<data, counter, conn, queue>> ]_vars

\* C18 witness: a call with the kind "patch" has been rejected after another
\* call was made.
C18_Witness ==
    \E i \in OpIds :
        /\ i > 1
        /\ OtherKind(ops[i])
        /\ ops[i].error = ErrInvalidMethod("patch")

\* Op o is a collection read without a lookup.
ReadsAll(o) == o.method = "read" /\ o.target = "collection"

\* The ids of the attribute maps a collection read has collected.
ResultIds(o) == {o.results[k]["id"] : k \in 1..Len(o.results)}

\* The attribute map m is what the hash h holds: the same fields, and each
\* value is the one whose JSON text is stored.
SameAsStored(m, h) ==
    /\ h # NoHash
    /\ DOMAIN m = DOMAIN h
    /\ \A f \in DOMAIN h : JSONstringify(m[f]) = h[f]

\* C19: a collection read without a lookup that reports success hands over
\* one attribute map for every id that was in the type set when SMEMBERS
\* answered, no more and no fewer, each the attributes stored when it was
\* fetched; when the hash of a member is gone at its fetch the read reports
\* 'Model does not exist' for it, and an error once reported stays.
C19_ReadAllIsComplete ==
    [][ \A i \in OpIds :
          LET o == ops'[i]
          IN ReadsAll(o) =>
                /\ o.outcome = "success" =>
                      /\ Len(o.results) = Cardinality(o.typeAt)
                      /\ ResultIds(o) = {Num(id) : id \in o.typeAt}
                      /\ \A k \in 1..Len(o.results) : SameAsStored(o.results[k], o.seen[k])
                      /\ StepOf(i) =>
                            \A k \in 1..Len(o.results) :
                                o.results[k]["id"] = Num(Head(queue[o.client]).key)
                                    => SameAsStored(o.results[k], hashes[Head(queue[o.client]).key])
                /\ ( /\ StepOf(i) /\ ops[i].outcome = "pending"
                      /\ AtHead(o.client, "HGETALL")
                      /\ hashes[Head(queue[o.client]).key] = NoHash )
                   => /\ o.outcome = "error"
                      /\ o.error = ErrNotExist(Head(queue[o.client]).key)
                /\ ops[i].outcome = "error" => (o.outcome = "error" /\ o.error = ops[i].error) ]_vars

\* C19 witness: a collection read has handed over two attribute maps.
C19_Witness ==
    \E i \in OpIds :
        /\ ReadsAll(ops[i]) /\ ops[i].outcome = "success"
        /\ Len(ops[i].results) = 2

\* C19 witness: a member was deleted between SMEMBERS and its fetch, and the
\* read reported the error.
C19_WitnessGone ==
    \E i \in OpIds :
        /\ ReadsAll(ops[i]) /\ ops[i].outcome = "error"
        /\ ops[i].typeAt # {}
        /\ \E j \in OpIds : ops[j].method = "delete" /\ ops[j].applied

\* Op i still waits for a reply of the store: to a command of its own or to a
\* command of the save of its embedded model.
Waiting(i) == InFlight(i) \/ \E j \in ChildOf(i) : InFlight(j)

\* C20: every sync calls options.success or options.error once the store has
\* answered its commands, and never calls more than one of them or one twice:
\* an invocation that has called neither still waits for a reply.
C20_ExactlyOneCallback ==
    \A i \in OpIds :
        /\ ops[i].calls <= 1
        /\ ops[i].calls = 1 <=> ops[i].outcome \in {"success", "error"}
        /\ ops[i].calls = 0 => Waiting(i)

-----------------------------------------------------------------------------
\* The save of an embedded model of op p has failed.
ChildFailed(p) == \E j \in ChildOf(p) : ops[j].outcome = "error"

\* The step belongs to the store of op p: it handles a reply to op p or to the
\* save of one of its embedded models.
StepOfStore(p) == StepOf(p) \/ \E j \in ChildOf(p) : StepOf(j)

\* The model of id is stored after the step as it was before it.
Kept(id) ==
    /\ hashes'[id] = hashes[id]
    /\ (id \in typeSet') = (id \in typeSet)
    /\ \A b \in Buckets : (id \in lookupSets'[b]) = (id \in lookupSets[b])

\* C21: when the save of an embedded model fails, the owner's batch is never
\* sent or applied (the owner has no command in flight from then on),
\* options.error of the owner is called once, with the error of the embedded
\* save that failed first, the step that reports the failure changes nothing
\* in the store, and the embedded models that were stored stay as they are:
\* no step of the failing store changes them.
C21_ChildFailureAborts ==
    [][ \A p \in OpIds :
          /\ ChildFailed(p)' =>
                /\ ops'[p].outcome = "error" /\ ops'[p].calls = 1
                /\ ~ops'[p].applied /\ ~InFlight(p)'
                /\ \E j \in ChildOf(p) : ops'[j].outcome = "error" /\ ops'[p].error = ops'[j].error
          /\ (ChildFailed(p)' /\ ~ChildFailed(p)) =>
                /\ ops[p].outcome = "pending"
                /\ \A j \in ChildOf(p) :
                      (ops[j].outcome = "pending" /\ ops'[j].outcome = "error")
                          => ops'[p].error = ops'[j].error
                /\ data' = data
          /\ ChildFailed(p) => ops'[p] = ops[p]
          /\ (ChildFailed(p)' /\ StepOfStore(p)) =>
                \A k \in ChildOf(p) : ops[k].applied => Kept(ops[k].id) ]_vars

\* C21 witness: of two embedded models the first was stored and the save of
\* the second failed; the owner reported that error, its hash is what it was
\* and the first embedded model is still stored.
C21_Witness ==
    \E p \in OpIds : \E j, k \in ChildOf(p) :
        /\ ops[j].applied /\ Exists(ops[j].id) /\ ops[j].id \in typeSet
        /\ ops[k].outcome = "error"
        /\ ops[p].outcome = "error" /\ ops[p].error = ops[k].error
        /\ StoredRev(ops[p].id) = ops[p].stored

\* C21 witness: the saves of both embedded models failed.
C21_WitnessBoth ==
    \E p \in OpIds : \E j, k \in ChildOf(p) :
        /\ j # k
        /\ ops[j].outcome = "error" /\ ops[k].outcome = "error"
        /\ ops[p].calls = 1

-----------------------------------------------------------------------------
\* Op i is a create (a save of an embedded model is one) that INCR has answered.
Assigned(i) == ops[i].method = "create" /\ ops[i].id # 0

\* C22: the ids of creates come from the counter id:customer: the reply of
\* INCR hands a create the counter's value plus one and stores it in the same
\* step, that id is greater than every id handed to a create before, an id
\* once handed out stays, no two creates have the same id however the round
\* trips of the adapters interleave, and of two creates of one adapter the one
\* called first has the smaller id.
C22_IdsStrictlyIncrease ==
    [][ /\ counter' >= counter
        /\ \A i \in OpIds :
              (ops[i].method = "create" /\ ~Assigned(i) /\ Assigned(i)') =>
                  /\ ops'[i].id = counter + 1
                  /\ counter' = counter + 1
                  /\ \A j \in OpIds : Assigned(j) => ops[j].id < ops'[i].id
        /\ \A i \in OpIds : Assigned(i) => ops'[i].id = ops[i].id
        /\ \A i, j \in OpIds :
              (i # j /\ Assigned(i)' /\ Assigned(j)') => ops'[i].id # ops'[j].id
        /\ \A i, j \in OpIds :
              ( /\ i < j /\ ops[i].client = ops[j].client
                /\ ops[i].method = "create" /\ Assigned(j)' )
              => (Assigned(i)' /\ ops'[i].id < ops'[j].id) ]_vars

\* C22 witness: two adapters created a model each while the other's create was
\* under way, and the create that was called second was handed the first id.
C22_Witness ==
    \E i, j \in OpIds :
        /\ i < j /\ ops[i].client # ops[j].client
        /\ Assigned(i) /\ Assigned(j)
        /\ ops[j].id = 1 /\ ops[i].id = 2
        /\ ops[i].outcome = "success" /\ ops[j].outcome = "success"

-----------------------------------------------------------------------------
\* Op o is an update of a model under whose id modify found no hash.
FirstWrite(o) == o.method = "update" /\ o.id \in Ids /\ o.guarded /\ o.stored = 0

\* C23: an update of an id under which no hash is stored is a first write,
\* whatever _rev the model has: modify hands over rev 1 and the batch is sent
\* at once, with no get and no UNWATCH before it; the batch removes the id from
\* no lookup set, adds it to the type set and to the lookup set of the model's
\* value of every declared lookup and writes _rev 1; and options.success is
\* called with {id, _rev: 1}.
C23_UpdateOfMissingIsFirstWrite ==
    [][ \A i \in OpIds :
          LET o == ops[i]
              c == o.client
          IN /\ ( /\ o.method = "update" /\ o.id \in Ids
                  /\ StepOf(i) /\ AtHead(c, "HGET")
                  /\ hashes[o.id] = NoHash )
                => /\ FirstWrite(ops'[i]) /\ ops'[i].rev = 1
                   /\ ops'[i].outcome = "pending"
                   /\ \E k \in 1..Len(queue'[c]) : queue'[c][k] = Cmd(i, "EXEC", o.id)
                   /\ \A k \in 1..Len(queue'[c]) :
                         queue'[c][k].op = i => queue'[c][k].cmd = "EXEC"
             /\ (FirstWrite(o) /\ StepOf(i)) =>
                   /\ AtHead(c, "EXEC") /\ ~o.hasPrev
                   /\ \A b \in Buckets : o.id \in lookupSets[b] => o.id \in lookupSets'[b]
                   /\ o.id \in typeSet'
                   /\ \A l \in lookups : o.id \in lookupSets'[JSONstringify(o.attr)]
                   /\ HGET(hashes'[o.id], "_rev") = JSONstringify(Num(1))
                   /\ HGET(hashes'[o.id], "id") = JSONstringify(Num(o.id))
                   /\ ops'[i].outcome = "success"
                   /\ ops'[i].resp = [f \in {"id", "_rev"} |->
                                         IF f = "id" THEN Num(o.id) ELSE Num(1)]
             /\ (FirstWrite(ops'[i]) /\ Done(ops'[i])) => ops'[i].outcome = "success" ]_vars

\* C23 witness: a model was deleted, and an update of it with the _rev it had
\* has written it again as a first write.
C23_Witness ==
    \E i, j \in OpIds :
        /\ i < j /\ ops[i].method = "delete" /\ ops[i].applied
        /\ ops[j].id = ops[i].id /\ ops[j].mrev # {}
        /\ FirstWrite(ops[j]) /\ ops[j].outcome = "success"
        /\ StoredRev(ops[j].id) = 1

\* C23 witness: an update with _rev 2 of an id that was never created has
\* answered.
C23_WitnessNever ==
    \E i \in OpIds :
        /\ FirstWrite(ops[i]) /\ ops[i].mrev = {2} /\ ops[i].outcome = "success"
        /\ counter < ops[i].id

-----------------------------------------------------------------------------
\* Op o is a create under whose id modify found a hash.
Found(o) == o.method = "create" /\ o.guarded /\ o.stored # 0

\* C24: a create that finds a hash stored under the id INCR gave it never
\* reports success and never applies its batch, reports 'Revision number
\* mismatch' (409) when its UNWATCH has answered, and no reply to it changes a
\* hash, the type set or a lookup set.
C24_CreateNeverOverwrites ==
    [][ \A i \in OpIds :
          LET o == ops'[i]
          IN Found(o) =>
                /\ o.outcome # "success"
                /\ ~o.applied
                /\ o.outcome = "error" => o.error = ErrMismatch
                /\ o.outcome = "pending" => InFlight(i)'
                /\ StepOf(i) => data' = data ]_vars

\* C24 for the models that carry no _rev.
C24_CreateWithoutRev ==
    [][ \A i \in OpIds :
          LET o == ops'[i]
          IN (Found(o) /\ o.mrev = {}) =>
                /\ o.outcome # "success"
                /\ ~o.applied
                /\ o.outcome = "error" => o.error = ErrMismatch
                /\ o.outcome = "pending" => InFlight(i)'
                /\ StepOf(i) => data' = data ]_vars

-----------------------------------------------------------------------------
\* The step is the call of a read or handles a reply to the read op i.
ReadStep(i) ==
    /\ i \in 1..Len(ops') /\ ops'[i].method = "read"
    /\ i \in OpIds => StepOf(i)

\* C25: the call of a read of a model, of a collection or of a lookup, and
\* every reply to one, leaves every hash, the type set, every lookup set and
\* the counter as they were, leaves the watched keys of every connection and
\* the WATCH of every operation as they were, and touches no other operation;
\* the only commands a read sends are HGETALL and SMEMBERS.
C25_ReadsChangeNothing ==
    [][ /\ \A i \in 1..Len(ops') :
              ReadStep(i) =>
                  /\ data' = data /\ counter' = counter /\ conn' = conn
                  /\ \A j \in OpIds : j # i => ops'[j] = ops[j]
                  /\ i \in OpIds => ops'[i].holds = ops[i].holds
        /\ \A c \in Clients : \A k \in 1..Len(queue'[c]) :
              ops'[queue'[c][k].op].method = "read"
                  => queue'[c][k].cmd \in {"HGETALL", "SMEMBERS"} ]_vars

\* C25 witness: a read has answered on a connection on which the WATCH of a
\* write called before it is still in force.
C25_Witness ==
    \E i, j \in OpIds :
        /\ j < i /\ ops[i].client = ops[j].client
        /\ ops[i].method = "read" /\ Done(ops[i])
        /\ IsWrite(ops[j]) /\ ops[j].holds /\ ops[j].outcome = "pending"
        /\ ops[j].id \in watched[ops[j].client]

\* C25 witness: a collection read or a lookup read has failed.
C25_WitnessFailed ==
    \E i \in OpIds :
        /\ ops[i].method = "read" /\ ops[i].outcome = "error"
        /\ ops[i].target \in {"collection", "lookup"}

====
